---- MODULE Spec2Model ----
(***************************************************************************)
(* Model of app.py: a Flask service that generates persona-styled replies  *)
(* through a remote generation API and keeps, per chat, a bounded memory   *)
(* of past exchanges in a vector-store collection.                         *)
(*                                                                         *)
(* Text is a sequence of one-character tokens (" " is whitespace).  A JSON *)
(* field of a request body is a record [k, v]: k = "absent" (key missing), *)
(* "other" (present but not a string: null, a number, ...) or "str" with   *)
(* its value v.  A conversation id f"{chat_id}_{n}" is the pair            *)
(* <<chat_id, n>>.  A collection is the sequence of the ids it holds, in   *)
(* the order collection.get() lists them (insertion order); documents and  *)
(* metadata are written once with the id and never read back by a          *)
(* decision of the program, so they are not carried.                       *)
(***************************************************************************)
EXTENDS Integers, Sequences, FiniteSets, TLC

VARIABLES
    GEMINI_API_KEY,        \* TRUE iff the environment value is non-empty
    conversation_counter,  \* chat -> int
    collection,            \* chat -> sequence of stored conversation ids
    last,                  \* what the last completed request was and what it answered
    inserted,              \* history: chat -> ids added since the chat was last cleared
    nsucc,                 \* history: chat -> success:true generations since last clear
    store_faults,          \* history: Memory Store failures met inside store_conversation_rag
    thr,                   \* per worker thread: position and locals in store_conversation_rag
    overlap                \* history: chat -> times a thread entered store_conversation_rag
                           \* while another was inside it for the same chat

vars == <<GEMINI_API_KEY, conversation_counter, collection, last,
          inserted, nsucc, store_faults, thr, overlap>>

----------------------------------------------------------------------------
(* Bounds of the model *)

MaxCounter == 22
MaxRaceCounter == 23
MaxStoreFaults == 1
MaxReqCounter == 1
MaxOverlaps == 2

----------------------------------------------------------------------------
(* Program constants *)

CHAT_COLLECTIONS == {"Timo", "Shark"}

PERSONAS == {"The Strategist", "The Visionary", "The Rebel", "The Orator",
             "The Conversationalist"}

Cap == 20

TopK == 3

Threads == {"t1", "t2"}

----------------------------------------------------------------------------
(* Text *)

Min(a, b) == IF a < b THEN a ELSE b

Range(s) == {s[i] : i \in DOMAIN s}

RECURSIVE lstrip(_)
lstrip(s) == IF s = <<>> THEN s
             ELSE IF Head(s) = " " THEN lstrip(Tail(s)) ELSE s

RECURSIVE rstrip(_)
rstrip(s) == IF s = <<>> THEN s
             ELSE IF s[Len(s)] = " " THEN rstrip(SubSeq(s, 1, Len(s) - 1)) ELSE s

strip(s) == rstrip(lstrip(s))

\* len(s.split()): the number of maximal runs of non-whitespace tokens
split_len(s) ==
    Cardinality({i \in DOMAIN s : s[i] # " " /\ (i = 1 \/ s[i - 1] = " ")})

upper(s) == CASE s = "Agree" -> "AGREE"
              [] s = "Disagree" -> "DISAGREE"
              [] OTHER -> s

\* data.get(key, default)
dict_get(field, default) ==
    IF field.k = "absent" THEN [k |-> "str", v |-> default] ELSE field

Seg(tag, name, text) == [seg |-> tag, name |-> name, text |-> text]

----------------------------------------------------------------------------
(* Memory Store calls on one collection *)

ConvId(chat_id, n) == <<chat_id, n>>

\* collection.add(ids=[conv_id]) when it does not raise
collection_add(col, conv_id) ==
    IF conv_id \in Range(col) THEN col ELSE Append(col, conv_id)

\* variant: the slice taken from the wrong end, ids[-(current_count - 20):]
newest_ids(ids, current_count) ==
    SubSeq(ids, Len(ids) - Min(current_count - Cap, Len(ids)) + 1, Len(ids))

\* variant: the slice one short, ids[:current_count - 21]
oldest_ids_one_short(ids, current_count) ==
    SubSeq(ids, 1, Min(current_count - Cap - 1, Len(ids)))

\* all_data['ids'][:current_count - 20]
oldest_ids(ids, current_count) ==
    SubSeq(ids, 1, Min(current_count - Cap, Len(ids)))

\* collection.delete(ids=...)
collection_delete(col, ids) ==
    SelectSeq(col, LAMBDA x : x \notin Range(ids))

----------------------------------------------------------------------------
(* A Memory Store call named by `fault` raises when the handler reaches it. *)
(* "none": no call raises.                                                  *)

RetrievalFaults == {"r_count", "r_n_results", "r_query"}

StoreFaults == {"s_add", "s_count", "s_get", "s_delete"}

ClearFaults == {"c_get", "c_delete"}

\* store_conversation_rag: the counter and collection it leaves, whether it
\* raised, and the Memory Store calls it made
store_conversation_rag(chat_id, counter, col, fault) ==
    LET n == counter + 1
        conv_id == ConvId(chat_id, n)
        added == collection_add(col, conv_id)
        current_count == Len(added)
        old == oldest_ids(added, current_count)
        Out(r, c, calls, f, ins) ==
            [raised |-> r, counter |-> n, col |-> c, calls |-> calls,
             faulted |-> f, added |-> ins]
    IN  IF fault = "s_add"
        THEN Out(TRUE, col, <<"add">>, TRUE, FALSE)
        ELSE IF fault = "s_count"
        THEN Out(TRUE, added, <<"add", "count">>, TRUE, added # col)
        ELSE IF current_count > Cap
        THEN IF fault = "s_get"
             THEN Out(TRUE, added, <<"add", "count", "get">>, TRUE, added # col)
             ELSE IF fault = "s_delete"
             THEN Out(TRUE, added, <<"add", "count", "get", "delete">>, TRUE, added # col)
             ELSE Out(FALSE, collection_delete(added, old),
                      <<"add", "count", "get", "delete">>, FALSE, added # col)
        ELSE Out(FALSE, added, <<"add", "count">>, FALSE, added # col)

\* retrieve_relevant_context_rag: the number of past conversations in the
\* returned context (0 is the empty string), whether it raised, and the
\* Memory Store calls it made
retrieve_relevant_context_rag(col, fault) ==
    LET Out(r, h, calls, f) == [raised |-> r, hits |-> h, calls |-> calls, faulted |-> f]
    IN  IF fault = "r_count" THEN Out(TRUE, 0, <<"count">>, TRUE)
        ELSE IF Len(col) = 0 THEN Out(FALSE, 0, <<"count">>, FALSE)
        ELSE IF fault = "r_n_results" THEN Out(FALSE, 0, <<"count", "count">>, TRUE)
        ELSE IF fault = "r_query" THEN Out(FALSE, 0, <<"count", "count", "query">>, TRUE)
        ELSE Out(FALSE, Min(TopK, Len(col)), <<"count", "count", "query">>, FALSE)

\* the numbered "Past question / You replied" entries of a context block
context_block(hits) == [i \in 1..hits |-> CASE i = 1 -> "1" [] i = 2 -> "2" [] OTHER -> "3"]

length_instruction(user_message) ==
    LET input_words == split_len(user_message)
    IN  IF input_words < 15 THEN "30"
        ELSE IF input_words < 30 THEN "50" ELSE "80"

\* variant: the retrieved context is prepended in rephrase mode too
user_content_context_always(user_message, response_hint, hits) ==
    (IF hits > 0 THEN <<Seg("context", "", context_block(hits))>> ELSE <<>>)
    \o (IF response_hint # <<>>
        THEN <<Seg("incoming_message", "", user_message),
               Seg("draft_response", "", response_hint),
               Seg("rephrase_task", "", response_hint)>>
        ELSE IF hits > 0 THEN <<Seg("current_message", "", user_message)>>
        ELSE <<Seg("message", "", user_message)>>)

\* user_message_with_context (lines 130-142)
user_content(user_message, response_hint, hits) ==
    IF response_hint # <<>>
    THEN <<Seg("incoming_message", "", user_message),
           Seg("draft_response", "", response_hint),
           Seg("rephrase_task", "", response_hint)>>
    ELSE IF hits > 0
    THEN <<Seg("context", "", context_block(hits)),
           Seg("current_message", "", user_message)>>
    ELSE <<Seg("message", "", user_message)>>

\* variant: the stance directive is kept when a draft is supplied
system_prompt_always_stance(persona_name, user_message, stance, response_hint, hits) ==
    <<Seg("persona_voice", persona_name, <<>>), Seg("must_stance", upper(stance), <<>>),
      Seg("length", length_instruction(user_message), <<>>), Seg("plain_text", "", <<>>)>>
    \o (IF response_hint = <<>> /\ hits > 0
        THEN <<Seg("memory_instruction", "", <<>>)>> ELSE <<>>)

\* system_prompt (lines 125, 144-159); stance is a string here
system_prompt(persona_name, user_message, stance, response_hint, hits) ==
    LET len == Seg("length", length_instruction(user_message), <<>>)
        texting == Seg("plain_text", "", <<>>)
        voice == Seg("persona_voice", persona_name, <<>>)
    IN  IF response_hint # <<>>
        THEN <<voice, len, texting>>
        ELSE <<voice, Seg("must_stance", upper(stance), <<>>), len, texting>>
             \o (IF hits > 0 THEN <<Seg("memory_instruction", "", <<>>)>> ELSE <<>>)

LlmOutcomes == {"text", "MAX_TOKENS", "SAFETY", "STOP", "no_candidates", "exception"}

\* the result dictionary of lines 170-214 for each shape of upstream answer
api_result(llm) ==
    CASE llm = "text" -> [success |-> TRUE, error |-> ""]
      [] llm = "MAX_TOKENS" -> [success |-> FALSE, error |-> "Response cut off (MAX_TOKENS)."]
      [] llm = "SAFETY" -> [success |-> FALSE, error |-> "Response blocked by safety filters."]
      [] llm = "STOP" -> [success |-> FALSE, error |-> "No text generated. Reason: STOP"]
      [] llm = "no_candidates" -> [success |-> FALSE, error |-> "No candidates in response."]
      [] OTHER -> [success |-> FALSE, error |-> "Generation Error"]

NoPrompt == <<>>

\* generate_reply: stance is the field as read from the body (it may be a
\* non-string, on which stance.upper() raises)
generate_reply(persona_name, user_message, stance, col, response_hint, llm, fault) ==
    LET r == retrieve_relevant_context_rag(col, fault)
        Out(raised, res, calls, sys, usr) ==
            [raised |-> raised, success |-> res.success, error |-> res.error,
             calls |-> calls, system |-> sys, user |-> usr, faulted |-> r.faulted]
        failed == [success |-> FALSE, error |-> "exception"]
    IN  IF r.raised THEN Out(TRUE, failed, r.calls, NoPrompt, NoPrompt)
        ELSE IF response_hint = <<>> /\ stance.k # "str"
        THEN Out(TRUE, failed, r.calls, NoPrompt, NoPrompt)
        ELSE Out(FALSE, api_result(llm), r.calls \o <<"generate_api">>,
                 system_prompt(persona_name, user_message, stance.v, response_hint, r.hits),
                 user_content(user_message, response_hint, r.hits))

----------------------------------------------------------------------------
(* Request handlers *)

Str(v) == [k |-> "str", v |-> v]

Resp(status, success, error) == [status |-> status, success |-> success, error |-> error]

\* variant: the persona check is missing
validation_error_no_persona(user_message, persona_name, chat_id) ==
    IF user_message = <<>> THEN "Message is required"
    ELSE IF chat_id \notin CHAT_COLLECTIONS THEN "Invalid chat ID"
    ELSE ""

\* lines 242-249: the error of the first failing check, "" when all pass
validation_error(user_message, persona_name, chat_id) ==
    IF user_message = <<>> THEN "Message is required"
    ELSE IF persona_name \notin PERSONAS THEN "Invalid persona"
    ELSE IF chat_id \notin CHAT_COLLECTIONS THEN "Invalid chat ID"
    ELSE ""

\* POST /generate (lines 227-260): the response, the external calls made,
\* the prompt sent, the Memory Store failure met ("none" if none), and the
\* counters and collections the handler leaves
generate_single_reply(req, llm, fault, key, counter, cols) ==
    LET message == dict_get(req.message, <<>>)
        persona_name == dict_get(req.persona, "")
        stance == dict_get(req.stance, "Agree")
        chat_id == dict_get(req.chat_id, "Timo")
        hint == dict_get(req.response_hint, <<>>)
        user_message == strip(message.v)
        response_hint == strip(hint.v)
        invalid == validation_error(user_message, persona_name.v, chat_id.v)
        Out(resp, chat, calls, sys, usr, ctr, cs, fired, added) ==
            [resp |-> resp, chat |-> chat, calls |-> calls, system |-> sys, user |-> usr,
             counter |-> ctr, cols |-> cs, fault |-> IF fired THEN fault ELSE "none",
             added |-> added]
        Early(resp) == Out(resp, "", <<>>, NoPrompt, NoPrompt, counter, cols, FALSE, FALSE)
    IN  IF ~key THEN Early(Resp(500, FALSE, "API key missing"))
        ELSE IF message.k = "other" \/ hint.k = "other"
        THEN Early(Resp(500, FALSE, "exception"))
        ELSE IF invalid # "" THEN Early(Resp(400, FALSE, invalid))
        ELSE
          LET c == chat_id.v
              g == generate_reply(persona_name.v, user_message, stance, cols[c],
                                  response_hint, llm, fault)
              st == store_conversation_rag(c, counter[c], cols[c], fault)
          IN  IF g.raised
              THEN Out(Resp(500, FALSE, "exception"), c, g.calls, g.system, g.user,
                       counter, cols, g.faulted, FALSE)
              ELSE IF ~g.success
              THEN Out(Resp(200, FALSE, g.error), c, g.calls, g.system, g.user,
                       counter, cols, g.faulted, FALSE)
              ELSE Out(IF st.raised THEN Resp(500, FALSE, "exception")
                                    ELSE Resp(200, TRUE, ""),
                       c, g.calls \o st.calls, g.system, g.user,
                       [counter EXCEPT ![c] = st.counter],
                       [cols EXCEPT ![c] = st.col], g.faulted \/ st.faulted, st.added)

\* GET /memory/<chat_id> (lines 262-290)
get_memory(chat_id, fault, cols) ==
    IF chat_id \notin CHAT_COLLECTIONS
    THEN [resp |-> Resp(400, FALSE, "Invalid chat ID"), calls |-> <<>>, count |-> 0]
    ELSE IF fault = "g_get"
    THEN [resp |-> Resp(500, FALSE, "exception"), calls |-> <<"get">>, count |-> 0]
    ELSE [resp |-> Resp(200, TRUE, ""), calls |-> <<"get">>, count |-> Len(cols[chat_id])]

\* variant: the counter is not reset
keep_counter(counter, chat_id) == counter

\* variant: every chat's counter is reset
reset_all_counters(counter, chat_id) == [c \in DOMAIN counter |-> 0]

\* conversation_counter[chat_id] = 0 (line 305)
reset_counter(counter, chat_id) == [counter EXCEPT ![chat_id] = 0]

\* variant: the counter is reset before the delete, so also when it raises
clear_memory_reset_first(chat_id, fault, counter, cols) ==
    LET Out(resp, calls, ctr, cs) ==
            [resp |-> resp, calls |-> calls, counter |-> ctr, cols |-> cs]
    IN  IF chat_id \notin CHAT_COLLECTIONS
        THEN Out(Resp(400, FALSE, "Invalid chat ID"), <<>>, counter, cols)
        ELSE IF fault = "c_get"
        THEN Out(Resp(500, FALSE, "exception"), <<"get">>, counter, cols)
        ELSE IF cols[chat_id] = <<>>
        THEN Out(Resp(200, TRUE, ""), <<"get">>, reset_counter(counter, chat_id), cols)
        ELSE IF fault = "c_delete"
        THEN Out(Resp(500, FALSE, "exception"), <<"get", "delete">>,
                 reset_counter(counter, chat_id), cols)
        ELSE Out(Resp(200, TRUE, ""), <<"get", "delete">>, reset_counter(counter, chat_id),
                 [cols EXCEPT ![chat_id] = collection_delete(@, @)])

\* DELETE /memory/<chat_id> (lines 292-309)
clear_memory(chat_id, fault, counter, cols) ==
    LET Out(resp, calls, ctr, cs) ==
            [resp |-> resp, calls |-> calls, counter |-> ctr, cols |-> cs]
    IN  IF chat_id \notin CHAT_COLLECTIONS
        THEN Out(Resp(400, FALSE, "Invalid chat ID"), <<>>, counter, cols)
        ELSE IF fault = "c_get"
        THEN Out(Resp(500, FALSE, "exception"), <<"get">>, counter, cols)
        ELSE IF cols[chat_id] = <<>>
        THEN Out(Resp(200, TRUE, ""), <<"get">>, reset_counter(counter, chat_id), cols)
        ELSE IF fault = "c_delete"
        THEN Out(Resp(500, FALSE, "exception"), <<"get", "delete">>, counter, cols)
        ELSE Out(Resp(200, TRUE, ""), <<"get", "delete">>, reset_counter(counter, chat_id),
                 [cols EXCEPT ![chat_id] = collection_delete(@, @)])

----------------------------------------------------------------------------
(* Request alphabets *)

AbsentText == [k |-> "absent", v |-> <<>>]

OtherText == [k |-> "other", v |-> <<>>]

AbsentName == [k |-> "absent", v |-> ""]

OtherName == [k |-> "other", v |-> ""]

\* n one-letter words separated by single blanks
Words(n) == [i \in 1..(2 * n - 1) |-> IF i % 2 = 1 THEN "w" ELSE " "]

Request(m, p, s, c, h) ==
    [message |-> m, persona |-> p, stance |-> s, chat_id |-> c, response_hint |-> h]

NoReq == Request(AbsentText, AbsentName, AbsentName, AbsentName, AbsentText)

Idle == [op |-> "none", req |-> NoReq, chat |-> "", status |-> 0, success |-> FALSE,
         error |-> "", calls |-> <<>>, fault |-> "none", system |-> NoPrompt,
         user |-> NoPrompt, count |-> 0]

PathChats == CHAT_COLLECTIONS \cup {"Bob"}

Draft == Str(<<"o", "k">>)

\* the requests of the memory life cycle: one per outcome class
CoreReqs ==
    {Request(Str(<<" ", "h", "i", " ">>), Str("The Rebel"), Str("Disagree"), Str("Shark"), AbsentText),
     Request(Str(<<"h", "i">>), Str("The Orator"), AbsentName, AbsentName, Draft)}

CoreLlm == {"text", "SAFETY"}

Hi == Str(<<" ", "h", "i", " ">>)

\* bodies that pass validation: every stance, chat and draft shape
ValidReqs ==
    {Request(Hi, Str("The Rebel"), s, c, h) :
        s \in {AbsentName, Str("Disagree"), OtherName},
        c \in {AbsentName, Str("Timo"), Str("Shark")},
        h \in {AbsentText, Draft}}
    \cup {Request(Str(Words(20)), Str("The Orator"), Str("Agree"), Str("Timo"), Str(<<" ">>)),
          Request(Str(Words(30)), Str("The Orator"), Str("Agree"), Str("Shark"), Draft)}

\* bodies with one field (or several) missing or invalid
InvalidReqs ==
    {Request(m, Str("The Rebel"), Str("Agree"), Str("Timo"), AbsentText) :
        m \in {AbsentText, OtherText, Str(<<>>), Str(<<" ">>)}}
    \cup {Request(Hi, p, Str("Agree"), Str("Timo"), AbsentText) :
            p \in {AbsentName, Str("Nobody")}}
    \cup {Request(Hi, Str("The Rebel"), Str("Agree"), Str("Bob"), AbsentText),
          Request(Hi, Str("The Rebel"), Str("Agree"), Str("Timo"), OtherText),
          Request(Str(<<" ">>), Str("The Rebel"), Str("Agree"), Str("Timo"), OtherText),
          Request(AbsentText, Str("Nobody"), AbsentName, Str("Bob"), Draft),
          Request(Hi, AbsentName, AbsentName, AbsentName, AbsentText)}


ThreadIdle == [pc |-> "idle", chat_id |-> "", tmp |-> 0, conv_id |-> <<"", 0>>,
               current_count |-> 0, oldest_ids |-> <<>>]

----------------------------------------------------------------------------
(* State machine: one request at a time, each handler one step *)

Init ==
    /\ GEMINI_API_KEY \in BOOLEAN
    /\ conversation_counter = [c \in CHAT_COLLECTIONS |-> 0]
    /\ collection = [c \in CHAT_COLLECTIONS |-> <<>>]
    /\ last = Idle
    /\ inserted = [c \in CHAT_COLLECTIONS |-> <<>>]
    /\ nsucc = [c \in CHAT_COLLECTIONS |-> 0]
    /\ store_faults = 0
    /\ thr = [t \in Threads |-> ThreadIdle]
    /\ overlap = [c \in CHAT_COLLECTIONS |-> 0]

Generate(req, llm, fault) ==
    \E R \in {generate_single_reply(req, llm, fault, GEMINI_API_KEY,
                                   conversation_counter, collection)} :
    LET c == R.chat
    IN  /\ conversation_counter' = R.counter
        /\ collection' = R.cols
        /\ last' = [op |-> "generate", req |-> req, chat |-> c, status |-> R.resp.status,
                    success |-> R.resp.success, error |-> R.resp.error, calls |-> R.calls,
                    fault |-> R.fault, system |-> R.system, user |-> R.user, count |-> 0]
        /\ inserted' = IF R.added
                       THEN [inserted EXCEPT ![c] = Append(@, ConvId(c, R.counter[c]))]
                       ELSE inserted
        /\ nsucc' = IF R.resp.success THEN [nsucc EXCEPT ![c] = @ + 1] ELSE nsucc
        /\ store_faults' = IF R.fault \in StoreFaults THEN store_faults + 1 ELSE store_faults
        /\ UNCHANGED <<GEMINI_API_KEY, thr, overlap>>

GetMemory(chat_id, fault) ==
    \E R \in {get_memory(chat_id, fault, collection)} :
        /\ last' = [op |-> "get_memory", req |-> NoReq, chat |-> chat_id,
                    status |-> R.resp.status, success |-> R.resp.success,
                    error |-> R.resp.error, calls |-> R.calls,
                    fault |-> IF R.resp.status = 500 THEN fault ELSE "none",
                    system |-> NoPrompt, user |-> NoPrompt, count |-> R.count]
        /\ UNCHANGED <<GEMINI_API_KEY, conversation_counter, collection,
                       inserted, nsucc, store_faults, thr, overlap>>

ClearMemory(chat_id, fault) ==
    \E R \in {clear_memory(chat_id, fault, conversation_counter, collection)} :
        /\ conversation_counter' = R.counter
        /\ collection' = R.cols
        /\ last' = [op |-> "clear_memory", req |-> NoReq, chat |-> chat_id,
                    status |-> R.resp.status, success |-> R.resp.success,
                    error |-> R.resp.error, calls |-> R.calls,
                    fault |-> IF R.resp.status = 500 THEN fault ELSE "none",
                    system |-> NoPrompt, user |-> NoPrompt, count |-> 0]
        /\ inserted' = IF R.resp.success THEN [inserted EXCEPT ![chat_id] = <<>>] ELSE inserted
        /\ nsucc' = IF R.resp.success THEN [nsucc EXCEPT ![chat_id] = 0] ELSE nsucc
        /\ UNCHANGED <<GEMINI_API_KEY, store_faults, thr, overlap>>

\* GET /personas (lines 311-318)
GetPersonas ==
    /\ last' = [Idle EXCEPT !.op = "get_personas", !.status = 200, !.success = TRUE,
                            !.count = Cardinality(PERSONAS)]
    /\ UNCHANGED <<GEMINI_API_KEY, conversation_counter, collection,
                   inserted, nsucc, store_faults, thr, overlap>>

\* the chat a generate request addresses ("" when its chat_id is unknown)
TargetChat(req) == dict_get(req.chat_id, "Timo").v

RECURSIVE Sum(_, _)
Sum(f, S) == IF S = {} THEN 0
             ELSE LET x == CHOOSE y \in S : TRUE IN f[x] + Sum(f, S \ {x})

\* the guards that keep the reachable states finite: a generation that can
\* reach store_conversation_rag (the upstream answer carries text) is taken
\* only while the counters together are below maxCounter, and
\* store_conversation_rag meets at most MaxStoreFaults Memory Store failures
WithinBounds(llm, fault, maxCounter) ==
    /\ llm = "text" => Sum(conversation_counter, CHAT_COLLECTIONS) < maxCounter
    /\ fault \in StoreFaults => store_faults < MaxStoreFaults

Next ==
    \/ \E req \in CoreReqs, llm \in CoreLlm, fault \in {"none"} \cup StoreFaults :
          WithinBounds(llm, fault, MaxCounter) /\ Generate(req, llm, fault)
    \/ \E chat_id \in CHAT_COLLECTIONS : GetMemory(chat_id, "none")
    \/ \E chat_id \in CHAT_COLLECTIONS, fault \in {"none", "c_delete"} :
          ClearMemory(chat_id, fault)
    \/ GetPersonas

Spec == Init /\ [][Next]_vars

\* the same handlers over every shape of request body and upstream answer
NextReq ==
    \/ \E req \in ValidReqs, llm \in LlmOutcomes,
          fault \in {"none", "s_add"} \cup RetrievalFaults :
          WithinBounds(llm, fault, MaxReqCounter) /\ Generate(req, llm, fault)
    \/ \E req \in InvalidReqs, llm \in {"text", "exception"} :
          WithinBounds(llm, "none", MaxReqCounter) /\ Generate(req, llm, "none")
    \/ \E chat_id \in PathChats, fault \in {"none", "g_get"} : GetMemory(chat_id, fault)
    \/ \E chat_id \in PathChats, fault \in {"none"} \cup ClearFaults : ClearMemory(chat_id, fault)
    \/ GetPersonas

SpecReq == Init /\ [][NextReq]_vars

----------------------------------------------------------------------------
(* Overlapping requests: the development server handles each request on   *)
(* its own thread, and store_conversation_rag takes no lock.  A thread is  *)
(* a generate request whose generation succeeded (line 253); each step is  *)
(* one access to the shared counter or one Memory Store call.  Line 66,    *)
(* counter[chat_id] += 1, is a read followed by a write.                   *)

Inside(t) == thr[t].pc # "idle"

Goto(t, pc) == [thr EXCEPT ![t].pc = pc]

\* line 65: the request enters store_conversation_rag for chat c
Enter(t, c) ==
    /\ GEMINI_API_KEY
    /\ thr[t].pc = "idle"
    /\ Sum(conversation_counter, CHAT_COLLECTIONS) < MaxRaceCounter
    /\ thr' = [thr EXCEPT ![t] = [ThreadIdle EXCEPT !.pc = "read_counter", !.chat_id = c]]
    /\ IF \E u \in Threads \ {t} : Inside(u) /\ thr[u].chat_id = c
       THEN /\ Sum(overlap, CHAT_COLLECTIONS) < MaxOverlaps
            /\ overlap' = [overlap EXCEPT ![c] = @ + 1]
       ELSE overlap' = overlap
    /\ UNCHANGED <<GEMINI_API_KEY, conversation_counter, collection, last, inserted,
                   nsucc, store_faults>>

\* line 66, the read of conversation_counter[chat_id]
ReadCounter(t) ==
    /\ thr[t].pc = "read_counter"
    /\ thr' = [thr EXCEPT ![t].pc = "write_counter",
                          ![t].tmp = conversation_counter[thr[t].chat_id]]
    /\ UNCHANGED <<GEMINI_API_KEY, conversation_counter, collection, last, inserted,
                   nsucc, store_faults, overlap>>

\* line 66, the write of conversation_counter[chat_id]
WriteCounter(t) ==
    /\ thr[t].pc = "write_counter"
    /\ conversation_counter' = [conversation_counter EXCEPT ![thr[t].chat_id] = thr[t].tmp + 1]
    /\ thr' = Goto(t, "mint")
    /\ UNCHANGED <<GEMINI_API_KEY, collection, last, inserted, nsucc, store_faults,
                   overlap>>

\* line 68: conv_id = f"{chat_id}_{conversation_counter[chat_id]}"
Mint(t) ==
    LET c == thr[t].chat_id
        id == ConvId(c, conversation_counter[c])
    IN  /\ thr[t].pc = "mint"
        /\ thr' = [thr EXCEPT ![t].pc = "add", ![t].conv_id = id]
        /\ UNCHANGED <<GEMINI_API_KEY, conversation_counter, collection, last, inserted,
                       nsucc, store_faults, overlap>>

\* lines 70-79: collection.add; adding an id the collection already holds is
\* ignored by some builds of the store and raises in others (the request
\* then ends in the handler's except branch)
Add(t, raises) ==
    LET c == thr[t].chat_id
        id == thr[t].conv_id
        dup == id \in Range(collection[c])
    IN  /\ thr[t].pc = "add"
        /\ raises => dup
        /\ collection' = [collection EXCEPT ![c] = IF raises THEN @ ELSE collection_add(@, id)]
        /\ thr' = IF raises THEN [thr EXCEPT ![t] = ThreadIdle] ELSE Goto(t, "count")
        /\ inserted' = IF dup THEN inserted ELSE [inserted EXCEPT ![c] = Append(@, id)]
        /\ UNCHANGED <<GEMINI_API_KEY, conversation_counter, last, nsucc, store_faults,
                       overlap>>

\* lines 83-84: current_count = collection.count(); return when within the cap
Count(t) ==
    LET c == thr[t].chat_id
        n == Len(collection[c])
    IN  /\ thr[t].pc = "count"
        /\ thr' = IF n > Cap THEN [thr EXCEPT ![t].pc = "get", ![t].current_count = n]
                             ELSE [thr EXCEPT ![t] = ThreadIdle]
        /\ nsucc' = IF n > Cap THEN nsucc ELSE [nsucc EXCEPT ![c] = @ + 1]
        /\ UNCHANGED <<GEMINI_API_KEY, conversation_counter, collection, last, inserted,
                       store_faults, overlap>>

\* lines 85-86: all_data = collection.get(); oldest_ids = ids[:current_count - 20]
Get(t) ==
    /\ thr[t].pc = "get"
    /\ thr' = [thr EXCEPT ![t].pc = "delete",
                          ![t].oldest_ids = oldest_ids(collection[thr[t].chat_id],
                                                       thr[t].current_count)]
    /\ UNCHANGED <<GEMINI_API_KEY, conversation_counter, collection, last, inserted,
                   nsucc, store_faults, overlap>>

\* line 87: collection.delete(ids=oldest_ids), then the request returns
Delete(t) ==
    LET c == thr[t].chat_id
    IN  /\ thr[t].pc = "delete"
        /\ collection' = [collection EXCEPT ![c] = collection_delete(@, thr[t].oldest_ids)]
        /\ thr' = [thr EXCEPT ![t] = ThreadIdle]
        /\ nsucc' = [nsucc EXCEPT ![c] = @ + 1]
        /\ UNCHANGED <<GEMINI_API_KEY, conversation_counter, last, inserted, store_faults,
                       overlap>>

\* the chat the overlapping requests address
RacedChats == {"Timo"}

NextConc ==
    \/ \E t \in Threads, c \in RacedChats : Enter(t, c)
    \/ \E t \in Threads : ReadCounter(t)
    \/ \E t \in Threads : WriteCounter(t)
    \/ \E t \in Threads : Mint(t)
    \/ \E t \in Threads, raises \in BOOLEAN : Add(t, raises)
    \/ \E t \in Threads : Count(t)
    \/ \E t \in Threads : Get(t)
    \/ \E t \in Threads : Delete(t)

SpecConc == Init /\ [][NextConc]_vars

----------------------------------------------------------------------------
(* Properties *)

LastN(s, n) == SubSeq(s, Len(s) - n + 1, Len(s))

SeqNo(id) == id[2]

IsRephrase(req) == req.response_hint.k = "str" /\ strip(req.response_hint.v) # <<>>

ApiCalled(calls) == "generate_api" \in Range(calls)

\* the Memory Store calls made before the outbound generation call
BeforeApi(calls) ==
    SubSeq(calls, 1, (CHOOSE i \in DOMAIN calls : calls[i] = "generate_api") - 1)

HasSeg(prompt, tag) == \E i \in DOMAIN prompt : prompt[i].seg = tag

MessageInvalid(req) ==
    req.message.k = "absent" \/ (req.message.k = "str" /\ strip(req.message.v) = <<>>)

PersonaInvalid(req) == req.persona.k = "absent" \/ req.persona.v \notin PERSONAS

ChatUnknown(req) == req.chat_id.k = "str" /\ req.chat_id.v \notin CHAT_COLLECTIONS

ChatAbsent(req) == req.chat_id.k = "absent"

TextsAreStrings(req) == req.message.k # "other" /\ req.response_hint.k # "other"

\* C1: for every chat, as long as every record inserted since the chat was
\* last empty belongs to a generation that answered success (N of them), the
\* collection holds exactly min(N, 20) records and they are the last
\* min(N, 20) inserted, in insertion order; and after any generation that
\* answered success the collection holds at most 20 records.
C1_CapAndRecency ==
    \A c \in CHAT_COLLECTIONS :
        /\ Len(inserted[c]) = nsucc[c] =>
              /\ Len(collection[c]) = Min(nsucc[c], Cap)
              /\ collection[c] = LastN(inserted[c], Min(nsucc[c], Cap))
        /\ (last.op = "generate" /\ last.success /\ last.chat = c) =>
              Len(collection[c]) <= Cap

\* C1 witness: a chat after more than 20 successful generations, the last
\* request being one of them (the eviction pass has run)
C1_Evicted ==
    \E c \in CHAT_COLLECTIONS :
        /\ nsucc[c] > Cap /\ Len(inserted[c]) = nsucc[c]
        /\ last.op = "generate" /\ last.success /\ last.chat = c

C3_IdsIncrease ==
    \A c \in CHAT_COLLECTIONS :
        \A i, j \in DOMAIN collection[c] :
            /\ collection[c][i][1] = c
            /\ i < j => SeqNo(collection[c][i]) < SeqNo(collection[c][j])

\* C3 witness: a full collection whose oldest records were evicted and which
\* has a gap in its numbering
C3_FullWithGap ==
    \E c \in CHAT_COLLECTIONS :
        /\ Len(collection[c]) = Cap
        /\ SeqNo(collection[c][1]) > 1
        /\ SeqNo(collection[c][Cap]) - SeqNo(collection[c][1]) >= Cap

\* C4 (as claimed): every POST /generate ends either with success:true and
\* exactly one new record in the chat's collection, or with an error and
\* every collection and counter as before the request.
C4_SucceededOrUntouched ==
    [][last'.op = "generate" =>
          \/ /\ last'.success
             /\ LET c == last'.chat
                    new == ConvId(c, conversation_counter'[c])
                IN  /\ new \notin Range(collection[c])
                    /\ new \in Range(collection'[c])
                    /\ Range(collection'[c]) \ {new} \subseteq Range(collection[c])
          \/ /\ ~last'.success
             /\ collection' = collection
             /\ conversation_counter' = conversation_counter]_vars

\* C5 (as claimed): a request in rephrase mode makes no Memory Store call
\* before the outbound generation call.
C5_NoStoreCallBeforeApi ==
    (last.op = "generate" /\ IsRephrase(last.req) /\ ApiCalled(last.calls)) =>
        BeforeApi(last.calls) = <<>>

\* C5 (amended): in rephrase mode the retrieval step still runs before the
\* outbound generation call (a count, then a second count and the query
\* when the collection is not empty), it only reads the Memory Store, and
\* the prompt carries nothing of what it returned.
C5_RetrievalRunsUnused ==
    (last.op = "generate" /\ IsRephrase(last.req) /\ ApiCalled(last.calls)) =>
        /\ BeforeApi(last.calls) \in {<<"count">>, <<"count", "count">>,
                                      <<"count", "count", "query">>}
        /\ ~HasSeg(last.user, "context")
        /\ ~HasSeg(last.system, "memory_instruction")

\* C5 witness: a rephrase request on a chat with memory, whose retrieval
\* queried the collection before the generation call
C5_RephraseQueried ==
    /\ last.op = "generate" /\ IsRephrase(last.req) /\ last.fault = "none"
    /\ ApiCalled(last.calls)
    /\ BeforeApi(last.calls) = <<"count", "count", "query">>

\* C6 (as claimed): a generate request that passed validation and whose
\* stance can be composed always reaches the outbound generation call,
\* whatever Memory Store call failed during retrieval, and then sends no
\* context when the collection was empty or a retrieval call failed.
C6_RetrievalNeverAborts ==
    (/\ last.op = "generate" /\ last.chat # ""
     /\ (IsRephrase(last.req) \/ last.req.stance.k # "other")
     /\ last.fault \notin StoreFaults) =>
        /\ ApiCalled(last.calls)
        /\ (last.fault \in RetrievalFaults \/ BeforeApi(last.calls) = <<"count">>) =>
              ~HasSeg(last.user, "context")

\* C7 (as claimed): with the key configured, a request whose message is
\* absent or empty, whose persona is not in the registry or whose chat_id is
\* absent or unknown is answered 400; without the key every request is
\* answered 500; in these cases no external call is made and no collection
\* or counter changes.
C7_InvalidIs400 ==
    [][last'.op = "generate" =>
          LET req == last'.req
              invalid == MessageInvalid(req) \/ PersonaInvalid(req)
                         \/ ChatUnknown(req) \/ ChatAbsent(req)
          IN  /\ (GEMINI_API_KEY /\ invalid) => last'.status = 400
              /\ ~GEMINI_API_KEY => last'.status = 500
              /\ (invalid \/ ~GEMINI_API_KEY) =>
                    /\ last'.calls = <<>>
                    /\ collection' = collection
                    /\ conversation_counter' = conversation_counter]_vars

\* C7 (amended): with the key configured and message and response_hint
\* strings where present, a request whose message is absent, empty or blank,
\* whose persona is absent or not in the registry, or whose chat_id is
\* present but not a known chat is answered 400; an absent chat_id is not
\* rejected, the request is handled for chat Timo; without the key every
\* request is answered 500; in the 400 and 500 cases no external call is
\* made and no collection or counter changes.
C7_InvalidIs400UnlessDefaulted ==
    [][last'.op = "generate" =>
          LET req == last'.req
              invalid == MessageInvalid(req) \/ PersonaInvalid(req) \/ ChatUnknown(req)
          IN  /\ (GEMINI_API_KEY /\ TextsAreStrings(req) /\ invalid) => last'.status = 400
              /\ (GEMINI_API_KEY /\ TextsAreStrings(req) /\ ~invalid /\ ChatAbsent(req)) =>
                    last'.chat = "Timo" /\ last'.status # 400
              /\ ~GEMINI_API_KEY => last'.status = 500
              /\ ((TextsAreStrings(req) /\ invalid) \/ ~GEMINI_API_KEY) =>
                    /\ last'.calls = <<>>
                    /\ collection' = collection
                    /\ conversation_counter' = conversation_counter]_vars

\* C7 witness: a request with an unknown persona, rejected with 400 while
\* the addressed chat holds a record
C7_RejectedPersona ==
    /\ last.op = "generate" /\ last.status = 400 /\ last.error = "Invalid persona"
    /\ PersonaInvalid(last.req) /\ collection["Timo"] # <<>>

\* C8: while no request has entered store_conversation_rag for a chat with
\* another request inside it, every id minted for the chat is new to its
\* collection, and once no request is inside the collection holds exactly
\* min(N, 20) records after N successful stores, with increasing ids.
C8_OneWriterSafe ==
    \A c \in CHAT_COLLECTIONS :
        overlap[c] = 0 =>
            /\ \A t \in Threads :
                  (thr[t].pc = "add" /\ thr[t].chat_id = c) =>
                      thr[t].conv_id \notin Range(collection[c])
            /\ (\A t \in Threads : ~(Inside(t) /\ thr[t].chat_id = c)) =>
                  /\ Len(collection[c]) = Min(nsucc[c], Cap)
                  /\ \A i, j \in DOMAIN collection[c] :
                        i < j => SeqNo(collection[c][i]) < SeqNo(collection[c][j])

\* C8 witness: after overlapping stores the eviction pass has over-pruned
\* the collection (it holds fewer than 20 records although more than 20
\* distinct records were inserted, so fewer than min(N, 20) after N
\* successful stores) and two requests inside store_conversation_rag hold
\* the same freshly minted id
C8_RaceDamage ==
    \E c \in CHAT_COLLECTIONS :
        /\ overlap[c] > 0
        /\ Len(inserted[c]) > Cap /\ Len(collection[c]) < Cap
        /\ Len(collection[c]) < Min(nsucc[c], Cap)
        /\ \A t \in Threads : thr[t].pc = "add" /\ thr[t].chat_id = c
        /\ \E t, u \in Threads : t # u /\ thr[t].conv_id = thr[u].conv_id

C10_ChatsIsolated ==
    [][/\ \A c \in CHAT_COLLECTIONS :
             last'.chat # c =>
                 collection'[c] = collection[c]
                 /\ conversation_counter'[c] = conversation_counter[c]
       /\ last'.op \in {"get_memory", "get_personas"} =>
             collection' = collection /\ conversation_counter' = conversation_counter]_vars

\* C10 witness: an eviction in one chat while the other chat holds records
C10_EvictionBesideOther ==
    \E c, d \in CHAT_COLLECTIONS :
        /\ c # d /\ collection[d] # <<>>
        /\ last.op = "generate" /\ last.success /\ last.chat = c
        /\ conversation_counter[c] > Cap

====
